---- MODULE Spec2Model ----
(***************************************************************************)
(* A model of the graph/taxonomy core of ai-rel-graph-mvp:                 *)
(*   - TagHierarchyService.build_hierarchy   (specification Spec)          *)
(*   - SimilarityService edge builders       (specification SpecEdges)     *)
(*   - SemanticProcessingService community detection (SpecCommunity)       *)
(*   - single calls of TagHierarchyService methods   (SpecService)         *)
(*   - build_hierarchy on nodes of a former run      (SpecRerun)           *)
(*   - SimilarityRepository and TagRepository calls  (SpecRepository)      *)
(*   - create_relationships_with_graph               (SpecRelations)       *)
(* Strings are sequences of one-character strings so that lower() and      *)
(* strip() are computed, not assumed.                                      *)
(***************************************************************************)
EXTENDS Integers, Sequences, FiniteSets, TLC

VARIABLES
    \* ---- TagHierarchyService.build_hierarchy ----
    split_threshold,          \* self.split_threshold
    cross_cutting_threshold,  \* self.cross_cutting_threshold
    nodes,                    \* the argument: sequence of [id, tags]
    pc,                       \* position inside build_hierarchy
    hierarchy,                \* tag name -> entry
    already_split,            \* already_split_this_round
    tag_reassignments,        \* parent tag -> [sub_tags, reassignments]
    queue,                    \* candidates of the running pass still to process
    temp_nodes,               \* nodes restructured after the first pass
    updated_nodes,            \* the returned nodes
    history,                  \* ghost: the accepted splits, in order
    last,                     \* ghost: the latest oracle consultation
    \* ---- SimilarityService ----
    ePc,                      \* which edge builder runs, and where it is
    similarity_threshold,     \* self.similarity_threshold
    similarity_matrix, document_ids, top_k, min_similarity, threshold,
    row,                      \* the loop variable i of get_top_k_pairs
    pairs_set,
    similar_pairs,            \* the returned edge list
    \* ---- SemanticProcessingService.community_detection_louvain ----
    cPc,                      \* position inside community_detection_louvain
    adjacency, num_nodes,     \* the arguments
    path,                     \* which algorithm produced the labels
    labels, visited, cluster_id,
    root,                     \* loop variable `node` of _connected_components_clustering
    stack,                    \* the running calls of dfs, innermost last
    \* ---- single calls of TagHierarchyService methods ----
    sPc,                      \* "call" before the call, "returned" after it
    args,                     \* the method called and its arguments
    result,                   \* what the call returned
    \* ---- SimilarityRepository and TagRepository on one session ----
    document_similarities,    \* the rows of table document_similarities
    orphaned_doc_count,       \* tag id -> the column of that row of table tags
    returned,                 \* the latest repository call and what it returned
    calls                     \* ghost: the number of repository calls made

hvars == <<split_threshold, cross_cutting_threshold, nodes, pc, hierarchy,
           already_split, tag_reassignments, queue, temp_nodes, updated_nodes,
           history, last>>
evars == <<ePc, similarity_threshold, similarity_matrix, document_ids, top_k,
           min_similarity, threshold, row, pairs_set, similar_pairs>>
cvars == <<cPc, adjacency, num_nodes, path, labels, visited, cluster_id, root, stack>>
svars == <<sPc, args, result>>
rvars == <<document_similarities, orphaned_doc_count, returned, calls>>
vars == <<hvars, evars, cvars, svars, rvars>>

(***************************************************************************)
(* Bounds of the model.                                                    *)
(***************************************************************************)
MaxSplits == 2          \* splits the oracle accepts in one build
MaxItems == 3           \* documents handed to an edge builder
MaxK == 2               \* largest top_k
MaxNodes == 3           \* nodes of a graph handed to community detection
MaxNameLen == 2         \* characters of a name given to create_cross_cutting_tag
MaxReplyTags == 4       \* sub-tags in one reply of the oracle
MaxCalls == 3           \* repository calls made on one session

(***************************************************************************)
(* Python values.                                                          *)
(***************************************************************************)
None == <<"None">>      \* Python's None where a name is expected

Range(s) == {s[i] : i \in DOMAIN s}

RECURSIVE SumSeq(_)
SumSeq(s) == IF s = <<>> THEN 0 ELSE Head(s) + SumSeq(Tail(s))

\* the elements of s in order of first occurrence (keys of a dict/Counter fed with s)
RECURSIVE FirstOccurrences(_, _)
FirstOccurrences(s, seen) ==
    IF s = <<>> THEN <<>>
    ELSE IF Head(s) \in seen THEN FirstOccurrences(Tail(s), seen)
         ELSE <<Head(s)>> \o FirstOccurrences(Tail(s), seen \cup {Head(s)})

Count(s, x) == Cardinality({i \in DOMAIN s : s[i] = x})

RECURSIVE Concat(_)
Concat(ss) == IF ss = <<>> THEN <<>> ELSE Head(ss) \o Concat(Tail(ss))

(***************************************************************************)
(* str: code points, comparison, lower(), strip().                         *)
(***************************************************************************)
CharCode(ch) ==
    CASE ch = " " -> 32
      [] ch = "A" -> 65
      [] ch = "B" -> 66
      [] ch = "a" -> 97
      [] ch = "b" -> 98
      [] ch = "c" -> 99
      [] ch = "d" -> 100
      [] ch = "high_level" -> 104   \* a dict key, ordered by its first letter
      [] ch = "low_level" -> 108
      [] OTHER -> 0

RECURSIVE StrLess(_, _)
StrLess(s, t) ==
    IF t = <<>> THEN FALSE
    ELSE IF s = <<>> THEN TRUE
    ELSE IF CharCode(Head(s)) # CharCode(Head(t))
         THEN CharCode(Head(s)) < CharCode(Head(t))
         ELSE StrLess(Tail(s), Tail(t))

LowerChar(ch) ==
    CASE ch = "A" -> "a"
      [] ch = "B" -> "b"
      [] OTHER -> ch

Lower(s) == [i \in DOMAIN s |-> LowerChar(s[i])]

RECURSIVE LStrip(_)
LStrip(s) == IF s # <<>> /\ Head(s) = " " THEN LStrip(Tail(s)) ELSE s

RECURSIVE RStrip(_)
RStrip(s) ==
    IF s # <<>> /\ s[Len(s)] = " " THEN RStrip(SubSeq(s, 1, Len(s) - 1)) ELSE s

Strip(s) == RStrip(LStrip(s))

\* tag.lower().strip()
LowerStrip(tag) == Strip(Lower(tag))

\* list(set_of_strings): the orders in which the set may be iterated
ListsOf(S) == {l \in [1..Cardinality(S) -> S] : Range(l) = S}

\* sorted(list_of_strings): stable insertion, smaller string first
RECURSIVE InsertName(_, _)
InsertName(sorted, name) ==
    IF sorted = <<>> THEN <<name>>
    ELSE IF StrLess(name, Head(sorted))
         THEN <<name>> \o sorted
         ELSE <<Head(sorted)>> \o InsertName(Tail(sorted), name)

RECURSIVE AsListed(_)
AsListed(l) == IF l = <<>> THEN <<>> ELSE <<Head(l)>> \o AsListed(Tail(l))

RECURSIVE SortNames(_)
SortNames(l) ==
    IF l = <<>> THEN <<>>
    ELSE InsertName(SortNames(SubSeq(l, 1, Len(l) - 1)), l[Len(l)])

\* sorted(list(set_of_strings)), the set listed in one of its orders
SortedNames(S) == SortNames(CHOOSE l \in ListsOf(S) : TRUE)

\* list.sort(key=lambda x: x[1], reverse=True): stable, largest count first
\* insertion that puts an item before the items of equal count
RECURSIVE InsertByCountFirst(_, _)
InsertByCountFirst(sorted, item) ==
    IF sorted = <<>> THEN <<item>>
    ELSE IF Head(sorted)[2] > item[2]
         THEN <<Head(sorted)>> \o InsertByCountFirst(Tail(sorted), item)
         ELSE <<item>> \o sorted

RECURSIVE InsertByCount(_, _)
InsertByCount(sorted, item) ==
    IF sorted = <<>> THEN <<item>>
    ELSE IF Head(sorted)[2] >= item[2]
         THEN <<Head(sorted)>> \o InsertByCount(Tail(sorted), item)
         ELSE <<item>> \o sorted

RECURSIVE SortByCountDesc(_)
SortByCountDesc(s) ==
    IF s = <<>> THEN <<>>
    ELSE InsertByCount(SortByCountDesc(SubSeq(s, 1, Len(s) - 1)), s[Len(s)])

(***************************************************************************)
(* Documents and tag names of the model.                                   *)
(***************************************************************************)
TagA == <<"a">>
TagAVariant == <<"A", " ">>     \* equals TagA after lower().strip()
TagB == <<"b">>
TagC == <<"c">>
TagNames == {TagA, TagAVariant, TagB, TagC}
OrigTags == {TagA, TagB}        \* tags the input documents carry
DocIds == <<"d1", "d2">>

\* node["tags"]: a flat list, or the {high_level, low_level} dict
FlatTags(items) == [kind |-> "list", items |-> items]
HierTags(high, low) == [kind |-> "dict", high_level |-> high, low_level |-> low]
KeyHighLevel == <<"high_level">>
KeyLowLevel == <<"low_level">>

\* iterating node["tags"] / testing `tag in node["tags"]`: a dict yields its keys
TagsIter(tags) ==
    IF tags.kind = "list" THEN tags.items ELSE <<KeyHighLevel, KeyLowLevel>>

\* tags.get("low_level", []) when tags is a dict
LowLevelOf(tags) == IF tags.kind = "dict" THEN tags.low_level ELSE <<>>
HighLevelOf(tags) == IF tags.kind = "dict" THEN tags.high_level ELSE <<>>

\* dicts as functions
EmptyDict == <<>>
DictUpdate(d, e) ==
    [k \in DOMAIN d \cup DOMAIN e |-> IF k \in DOMAIN e THEN e[k] ELSE d[k]]
DictSet(d, k, v) == [x \in DOMAIN d \cup {k} |-> IF x = k THEN v ELSE d[x]]

(***************************************************************************)
(* TagHierarchyService                                                     *)
(***************************************************************************)
\* Counter fed with the listed tags of every node, as (tag, count) in key order
CounterOf(lists) ==
    LET all == Concat(lists)
        keys == FirstOccurrences(all, {})
    IN [i \in DOMAIN keys |-> <<keys[i], Count(all, keys[i])>>]

analyze_tag_distribution(ns) ==
    CounterOf([i \in DOMAIN ns |->
        IF ns[i].tags.kind = "list" THEN ns[i].tags.items
        ELSE LowLevelOf(ns[i].tags)])

should_split_tagNoGuard(tag, count, existing_hierarchy, already_split_this_round) ==
    ~(count < split_threshold)

should_split_tag(tag, count, existing_hierarchy, already_split_this_round) ==
    IF count < split_threshold THEN FALSE
    ELSE IF tag \in already_split_this_round THEN FALSE
    ELSE TRUE

\* the candidates of one pass: filtered by should_split_tag, largest count first
SplitCandidates(counts, hier, already) ==
    SortByCountDesc(SelectSeq(counts,
        LAMBDA tc : should_split_tag(tc[1], tc[2], hier, already)))

\* What suggest_sub_tags returns; NoSplit stands for None.  The reply of the
\* chat-completion call is
\*   [kind |-> "raise"]        the call or json.loads raised
\*   [kind |-> "not_object"]   valid JSON that is no object (result.get raises)
\*   [kind |-> "object", should_split, sub_tags]
NoSplit == <<>>

FilterParentNameExact(parent_tag, tags) ==
    SelectSeq(tags, LAMBDA tag : tag # parent_tag)

FilterParentName(parent_tag, tags) ==
    SelectSeq(tags, LAMBDA tag : LowerStrip(tag) # LowerStrip(parent_tag))

\* the dynamic cap computed from the number of member documents; it is written
\* into the prompt and used nowhere else
max_sub_tags(doc_count) ==
    IF doc_count <= 15 THEN 3
    ELSE IF doc_count <= 25 THEN 4
    ELSE IF doc_count <= 35 THEN 5
    ELSE 6

suggest_sub_tags(parent_tag, documents, reply) ==
    IF reply.kind # "object" THEN NoSplit
    ELSE IF reply.should_split /\ reply.sub_tags # <<>>
         THEN FilterParentName(parent_tag, reply.sub_tags)
         ELSE NoSplit

\* _reassign_batch: reply is [kind |-> "raise"] or
\* [kind |-> "items", items |-> sequence of [id, selected_tags]]
RECURSIVE ItemsToDict(_)
ItemsToDict(items) ==
    IF items = <<>> THEN EmptyDict
    ELSE LET item == items[Len(items)]
         IN DictSet(ItemsToDict(SubSeq(items, 1, Len(items) - 1)),
                    item.id, item.selected_tags)

reassign_batch(parent_tag, sub_tags, documents, reply) == ItemsToDict(reply.items)

batch_size == 10

NumBatches(documents) == (Len(documents) + batch_size - 1) \div batch_size

Batch(documents, k) ==
    SubSeq(documents, (k - 1) * batch_size + 1,
           IF k * batch_size < Len(documents) THEN k * batch_size ELSE Len(documents))

\* a loop in which a failed batch drops what the batches before it returned
RECURSIVE ReassignLoopReset(_, _, _, _, _)
ReassignLoopReset(parent_tag, sub_tags, documents, replies, k) ==
    IF k = 0 THEN EmptyDict
    ELSE LET before == ReassignLoopReset(parent_tag, sub_tags, documents, replies, k - 1)
             batch == Batch(documents, k)
         IN IF replies[k].kind = "raise"
            THEN [id \in {batch[i].id : i \in DOMAIN batch} |-> <<>>]
            ELSE DictUpdate(before, reassign_batch(parent_tag, sub_tags, batch, replies[k]))

RECURSIVE ReassignLoop(_, _, _, _, _)
ReassignLoop(parent_tag, sub_tags, documents, replies, k) ==
    IF k = 0 THEN EmptyDict
    ELSE LET before == ReassignLoop(parent_tag, sub_tags, documents, replies, k - 1)
             batch == Batch(documents, k)
         IN IF replies[k].kind = "raise"
            THEN DictUpdate(before, [id \in {batch[i].id : i \in DOMAIN batch} |-> <<>>])
            ELSE DictUpdate(before, reassign_batch(parent_tag, sub_tags, batch, replies[k]))

reassign_documents_to_subtags(parent_tag, sub_tags, documents, replies) ==
    LET raw == ReassignLoop(parent_tag, sub_tags, documents, replies,
                            NumBatches(documents))
    IN [id \in DOMAIN raw |-> FilterParentName(parent_tag, raw[id])]

\* the name built from tag1 and tag2 in the order given
JoinAsGiven(tag1, tag2) == tag1 \o <<" ">> \o tag2

create_cross_cutting_tag(tag1, tag2) ==
    IF StrLess(tag1, tag2) THEN tag1 \o <<" ">> \o tag2 ELSE tag2 \o <<" ">> \o tag1

SortedPair(x, y) == IF StrLess(y, x) THEN <<y, x>> ELSE <<x, y>>

\* the sorted pairs of distinct names of a set, in a fixed order
PairsOf(S) ==
    LET names == SortedNames(S)
    IN Concat([i \in DOMAIN names |->
           [j \in 1..(Len(names) - i) |-> <<names[i], names[i + j]>>]])

ExceedsThreshold(count, th) == count > th

\* if count >= self.cross_cutting_threshold
ReachesThreshold(count, th) == count >= th

find_cross_cutting_tags(ns, high_level_tags) ==
    LET counts == CounterOf([i \in DOMAIN ns |->
                      PairsOf(Range(HighLevelOf(ns[i].tags)))])
        kept == SelectSeq(counts,
                  LAMBDA pc2 : ReachesThreshold(pc2[2], cross_cutting_threshold))
        sorted == SortByCountDesc(kept)
    IN [i \in DOMAIN sorted |-> <<sorted[i][1][1], sorted[i][1][2], sorted[i][2]>>]

\* _apply_hierarchy_to_nodes for one node
ApplyToNode(node, reassigned, hier, cross_cutting_pairs) ==
    LET old_tags == TagsIter(node.tags)
        split == {old_tags[i] : i \in {j \in DOMAIN old_tags :
                                        old_tags[j] \in DOMAIN reassigned}}
        kept == {old_tags[i] : i \in {j \in DOMAIN old_tags :
                                        old_tags[j] \notin DOMAIN reassigned}}
        assigned == UNION {
            LET r == reassigned[t].reassignments
            IN IF node.id \in DOMAIN r THEN Range(r[node.id]) ELSE {} : t \in split}
        crossKeys == {<<cross_cutting_pairs[i][1], cross_cutting_pairs[i][2]>> :
                        i \in DOMAIN cross_cutting_pairs}
        cross == {create_cross_cutting_tag(p[1], p[2]) :
                    p \in {q \in crossKeys :
                             \E x \in split, y \in split :
                                 x # y /\ SortedPair(x, y) = q}}
    IN [id |-> node.id,
        tags |-> HierTags(SortedNames(split),
                          SortedNames(kept \cup assigned \cup cross))]

apply_hierarchy_to_nodes(ns, reassigned, hier, cross_cutting_pairs) ==
    [i \in DOMAIN ns |-> ApplyToNode(ns[i], reassigned, hier, cross_cutting_pairs)]

(***************************************************************************)
(* build_hierarchy as a state machine.                                     *)
(***************************************************************************)
Entry(type, children, parent, count) ==
    [type |-> type, children |-> children, parent |-> parent, parents |-> <<>>,
     document_count |-> count, cross_cutting |-> FALSE]

CrossEntry(tag1, tag2, count) ==
    [type |-> "low_level", children |-> <<>>, parent |-> None,
     parents |-> <<tag1, tag2>>, document_count |-> count, cross_cutting |-> TRUE]

\* inputs: flat tag lists of the documents, thresholds, oracle replies
\* flat tag lists of an input document: up to two tags, repeats included
TagLists == {<<>>} \cup {<<t>> : t \in OrigTags} \cup {<<t, u>> : t \in OrigTags, u \in OrigTags}
Corpora == {[i \in DOMAIN DocIds |-> [id |-> DocIds[i], tags |-> FlatTags(l[i])]] :
              l \in {m \in [DOMAIN DocIds -> TagLists] :
                       m[2] \in {<<>>, <<TagA>>, <<TagA, TagB>>}}}
\* the (split_threshold, cross_cutting_threshold) settings explored
ThresholdPairs == {<<1, 2>>, <<2, 1>>, <<2, 2>>}
SuggestedLists == {<<>>} \cup {<<t>> : t \in TagNames}
                  \cup {<<TagB, TagC>>, <<TagAVariant, TagC>>}
SuggestReplies ==
    {[kind |-> "raise"], [kind |-> "not_object"]}
    \cup {[kind |-> "object", should_split |-> b, sub_tags |-> l] :
            b \in BOOLEAN, l \in SuggestedLists}
\* a reply of the reassignment oracle for one batch: it fails, returns no item,
\* or selects one tag for some documents of the batch and none for the others
BatchReplies(batch) ==
    {[kind |-> "raise"], [kind |-> "items", items |-> <<>>]}
    \cup {[kind |-> "items",
           items |-> [i \in DOMAIN batch |->
                        [id |-> batch[i].id,
                         selected_tags |-> IF i \in chosen THEN <<t>> ELSE <<>>]]] :
            t \in TagNames, chosen \in SUBSET (DOMAIN batch) \ {{}}}
ReassignReplies(documents) ==
    {r \in [1..NumBatches(documents) -> UNION {BatchReplies(Batch(documents, k)) :
                                                 k \in 1..NumBatches(documents)}] :
        \A k \in 1..NumBatches(documents) : r[k] \in BatchReplies(Batch(documents, k))}

\* ghost: the sub-tags a reply asks to split into, before any filtering
Suggested(reply) ==
    IF reply.kind = "object" /\ reply.should_split THEN reply.sub_tags ELSE <<>>

SubCount(reassignments, sub_tag) ==
    Cardinality({id \in DOMAIN reassignments : sub_tag \in Range(reassignments[id])})

HInit ==
    /\ \E th \in ThresholdPairs :
          split_threshold = th[1] /\ cross_cutting_threshold = th[2]
    /\ nodes \in Corpora
    /\ pc = "start"
    /\ hierarchy = EmptyDict
    /\ already_split = {}
    /\ tag_reassignments = EmptyDict
    /\ queue = <<>>
    /\ temp_nodes = <<>>
    /\ updated_nodes = <<>>
    /\ history = <<>>
    /\ last = [tag |-> None, kind |-> "none", pass |-> 0, suggested |-> <<>>]

\* Steps 1-2: distribution analysis and candidate selection
SelectCandidates ==
    /\ pc = "start"
    /\ queue' = SplitCandidates(analyze_tag_distribution(nodes), hierarchy, already_split)
    /\ pc' = "pass1"
    /\ UNCHANGED <<split_threshold, cross_cutting_threshold, nodes, hierarchy,
                   already_split, tag_reassignments, temp_nodes, updated_nodes,
                   history, last>>

\* the hierarchy after an accepted first-pass split
RecordSplit(hier, parent_tag, count, sub_tags, reassignments) ==
    DictUpdate(DictSet(hier, parent_tag, Entry("high_level", sub_tags, None, count)),
               [s \in Range(sub_tags) |->
                    Entry("low_level", <<>>, parent_tag, SubCount(reassignments, s))])

\* Step 3, one iteration of the loop over tags_to_split
SplitTag ==
    /\ pc = "pass1"
    /\ queue # <<>>
    /\ LET parent_tag == Head(queue)[1]
           count == Head(queue)[2]
           docs_with_tag == SelectSeq(nodes,
               LAMBDA node : parent_tag \in Range(TagsIter(node.tags)))
       IN \E reply \in SuggestReplies :
            LET sub_tags == suggest_sub_tags(parent_tag, docs_with_tag, reply)
            IN /\ last' = [tag |-> parent_tag, kind |-> reply.kind, pass |-> 1,
                           suggested |-> Suggested(reply)]
               /\ queue' = Tail(queue)
               /\ \/ /\ sub_tags # NoSplit
                     /\ Len(history) < MaxSplits
                     /\ \E replies \in ReassignReplies(docs_with_tag) :
                          LET reassignments == reassign_documents_to_subtags(
                                  parent_tag, sub_tags, docs_with_tag, replies)
                          IN /\ tag_reassignments' = DictSet(tag_reassignments, parent_tag,
                                    [sub_tags |-> sub_tags, reassignments |-> reassignments])
                             /\ already_split' = already_split \cup {parent_tag}
                             /\ hierarchy' = RecordSplit(hierarchy, parent_tag, count,
                                                         sub_tags, reassignments)
                             /\ history' = Append(history,
                                    [tag |-> parent_tag, pass |-> 1, sub_tags |-> sub_tags])
                  \/ /\ sub_tags = NoSplit
                     /\ UNCHANGED <<tag_reassignments, already_split, hierarchy, history>>
    /\ UNCHANGED <<split_threshold, cross_cutting_threshold, nodes, pc, temp_nodes,
                   updated_nodes>>

\* Step 3.5, up to the candidate list of the second pass
StartSecondPass ==
    /\ pc = "pass1"
    /\ queue = <<>>
    /\ LET temp == apply_hierarchy_to_nodes(nodes, tag_reassignments, hierarchy, <<>>)
           counts == CounterOf([i \in DOMAIN temp |-> LowLevelOf(temp[i].tags)])
       IN /\ temp_nodes' = temp
          /\ queue' = SplitCandidates(counts, hierarchy, already_split)
    /\ pc' = "pass2"
    /\ UNCHANGED <<split_threshold, cross_cutting_threshold, nodes, hierarchy,
                   already_split, tag_reassignments, updated_nodes, history, last>>

\* the hierarchy after an accepted second-pass split of an entry it holds
RecordSubSplit(hier, sub_tag, new_sub_tags, reassignments) ==
    DictUpdate(DictSet(hier, sub_tag,
                       [hier[sub_tag] EXCEPT !.type = "high_level",
                                             !.children = new_sub_tags,
                                             !.parent = hier[sub_tag].parent]),
               [s \in Range(new_sub_tags) |->
                    Entry("low_level", <<>>, sub_tag, SubCount(reassignments, s))])

\* Step 3.5, one iteration of the loop over sub_tags_to_split; hierarchy[sub_tag]
\* raises KeyError when the tag has no entry, which ends build_hierarchy
SplitSubTag ==
    /\ pc = "pass2"
    /\ queue # <<>>
    /\ LET sub_tag == Head(queue)[1]
           docs_with_tag == SelectSeq(temp_nodes,
               LAMBDA node : sub_tag \in Range(LowLevelOf(node.tags)))
       IN \E reply \in SuggestReplies :
            LET new_sub_tags == suggest_sub_tags(sub_tag, docs_with_tag, reply)
            IN /\ last' = [tag |-> sub_tag, kind |-> reply.kind, pass |-> 2,
                           suggested |-> Suggested(reply)]
               /\ queue' = Tail(queue)
               /\ \/ /\ new_sub_tags # NoSplit
                     /\ Len(history) < MaxSplits
                     /\ \E replies \in ReassignReplies(docs_with_tag) :
                          LET reassignments == reassign_documents_to_subtags(
                                  sub_tag, new_sub_tags, docs_with_tag, replies)
                          IN /\ tag_reassignments' = DictSet(tag_reassignments, sub_tag,
                                    [sub_tags |-> new_sub_tags,
                                     reassignments |-> reassignments])
                             /\ already_split' = already_split \cup {sub_tag}
                             /\ history' = Append(history,
                                    [tag |-> sub_tag, pass |-> 2, sub_tags |-> new_sub_tags])
                             /\ IF sub_tag \in DOMAIN hierarchy
                                THEN /\ hierarchy' = RecordSubSplit(hierarchy, sub_tag,
                                                        new_sub_tags, reassignments)
                                     /\ pc' = pc
                                ELSE /\ hierarchy' = hierarchy
                                     /\ pc' = "raised"
                  \/ /\ new_sub_tags = NoSplit
                     /\ UNCHANGED <<tag_reassignments, already_split, hierarchy,
                                    history, pc>>
    /\ UNCHANGED <<split_threshold, cross_cutting_threshold, nodes, temp_nodes,
                   updated_nodes>>

RECURSIVE AddCrossCutting(_, _)
AddCrossCutting(hier, pairs) ==
    IF pairs = <<>> THEN hier
    ELSE AddCrossCutting(
            DictSet(hier, create_cross_cutting_tag(Head(pairs)[1], Head(pairs)[2]),
                    CrossEntry(Head(pairs)[1], Head(pairs)[2], Head(pairs)[3])),
            Tail(pairs))

\* Steps 4-5 and the return
Finish ==
    /\ pc = "pass2"
    /\ queue = <<>>
    /\ LET temp == apply_hierarchy_to_nodes(nodes, tag_reassignments, hierarchy, <<>>)
           high_level_tags == {t \in DOMAIN hierarchy : hierarchy[t].type = "high_level"}
           cross_cutting_pairs == find_cross_cutting_tags(temp, high_level_tags)
       IN /\ hierarchy' = AddCrossCutting(hierarchy, cross_cutting_pairs)
          /\ updated_nodes' = apply_hierarchy_to_nodes(nodes, tag_reassignments,
                                  hierarchy', cross_cutting_pairs)
    /\ pc' = "done"
    /\ UNCHANGED <<split_threshold, cross_cutting_threshold, nodes, already_split,
                   tag_reassignments, queue, temp_nodes, history, last>>

EIdle ==
    /\ ePc = "off" /\ similarity_threshold = 0 /\ similarity_matrix = <<>>
    /\ document_ids = <<>> /\ top_k = 0 /\ min_similarity = 0 /\ threshold = {}
    /\ row = 0 /\ pairs_set = {} /\ similar_pairs = <<>>

CIdle ==
    /\ cPc = "off" /\ adjacency = <<>> /\ num_nodes = 0 /\ path = "none"
    /\ labels = <<>> /\ visited = {} /\ cluster_id = 0 /\ root = 0 /\ stack = <<>>

SIdle == sPc = "off" /\ args = <<>> /\ result = <<>>

RIdle ==
    /\ document_similarities = {} /\ orphaned_doc_count = <<>>
    /\ returned = <<>> /\ calls = 0

Init == HInit /\ EIdle /\ CIdle /\ SIdle /\ RIdle

Next ==
    \/ SelectCandidates /\ UNCHANGED <<evars, cvars, svars, rvars>>
    \/ SplitTag /\ UNCHANGED <<evars, cvars, svars, rvars>>
    \/ StartSecondPass /\ UNCHANGED <<evars, cvars, svars, rvars>>
    \/ SplitSubTag /\ UNCHANGED <<evars, cvars, svars, rvars>>
    \/ Finish /\ UNCHANGED <<evars, cvars, svars, rvars>>

Spec == Init /\ [][Next]_vars

\* build_hierarchy called again on nodes a former run returned: the first
\* document carries its tags in {high_level, low_level} form, the second in
\* either form
RerunCorpora ==
    {<<[id |-> DocIds[1], tags |-> t1], [id |-> DocIds[2], tags |-> t2]>> :
        t1 \in {HierTags(<<>>, <<TagA>>), HierTags(<<TagB>>, <<TagA>>)},
        t2 \in {FlatTags(<<>>), FlatTags(<<TagA>>), HierTags(<<>>, <<TagA, TagB>>)}}

HInitRerun ==
    /\ \E th \in ThresholdPairs :
          split_threshold = th[1] /\ cross_cutting_threshold = th[2]
    /\ nodes \in RerunCorpora
    /\ pc = "start"
    /\ hierarchy = EmptyDict
    /\ already_split = {}
    /\ tag_reassignments = EmptyDict
    /\ queue = <<>>
    /\ temp_nodes = <<>>
    /\ updated_nodes = <<>>
    /\ history = <<>>
    /\ last = [tag |-> None, kind |-> "none", pass |-> 0, suggested |-> <<>>]

InitRerun == HInitRerun /\ EIdle /\ CIdle /\ SIdle /\ RIdle

SpecRerun == InitRerun /\ [][Next]_vars

(***************************************************************************)
(* Properties of build_hierarchy (specification Spec).                     *)
(***************************************************************************)
\* how many documents of temp_nodes list the tag as low-level
LowLevelCount(tag) ==
    SumSeq([i \in DOMAIN temp_nodes |-> Count(LowLevelOf(temp_nodes[i].tags), tag)])

\* C1: within one build no tag is split twice, and a tag that is already in
\* already_split is never among the candidates waiting to be split, in
\* either pass.
C1_SplitAtMostOnce ==
    /\ \A i \in DOMAIN history : \A j \in DOMAIN history :
           i # j => history[i].tag # history[j].tag
    /\ \A k \in DOMAIN queue : queue[k][1] \notin already_split

\* the second pass has begun and a tag split in the first pass again has
\* enough documents to qualify by count
C1_Witness ==
    /\ pc = "pass2"
    /\ \E t \in already_split : LowLevelCount(t) >= split_threshold

SameName(x, y) == LowerStrip(x) = LowerStrip(y)

AllMatchParent(l, parent_tag) ==
    l # <<>> /\ \A i \in DOMAIN l : SameName(l[i], parent_tag)

\* C2: no children list of the hierarchy holds the tag's own name (compared
\* after lower().strip()), and a tag whose suggested sub-tags were all
\* filtered out is not split.
C2_NoSelfChild ==
    /\ \A t \in DOMAIN hierarchy :
           \A i \in DOMAIN hierarchy[t].children :
               ~SameName(hierarchy[t].children[i], t)
    /\ AllMatchParent(last.suggested, last.tag) => last.tag \notin already_split

\* a returned hierarchy whose latest split lost a suggested sub-tag to the
\* filter and kept another
C2_Witness ==
    /\ pc = "done"
    /\ last.tag \in already_split
    /\ \E i \in DOMAIN last.suggested : SameName(last.suggested[i], last.tag)
    /\ hierarchy[last.tag].children # <<>>
    /\ hierarchy[last.tag].children # last.suggested

\* C3: whatever the oracle answers, build_hierarchy does not abort, and a
\* tag whose oracle call failed is not split by that call.
C3_BuildNeverAborts ==
    /\ pc # "raised"
    /\ last.kind \in {"raise", "not_object"} =>
           \A i \in DOMAIN history :
               ~(history[i].tag = last.tag /\ history[i].pass = last.pass)

\* the split of history record h is in the hierarchy as it was recorded
Recorded(h) ==
    /\ h.tag \in DOMAIN hierarchy
    /\ hierarchy[h.tag].type = "high_level"
    /\ hierarchy[h.tag].children = h.sub_tags
    /\ \A i \in DOMAIN h.sub_tags :
           /\ h.sub_tags[i] \in DOMAIN hierarchy
           /\ hierarchy[h.sub_tags[i]].parent = h.tag

\* C4: every accepted split is still as recorded in the returned hierarchy:
\* the entry is high_level with the accepted children, and each child entry
\* names the tag as its parent.
C4_AcceptedEntriesKept ==
    pc = "done" => \A i \in DOMAIN history : Recorded(history[i])

\* a list of names in strictly ascending order
IsSortedNames(l) == \A i \in DOMAIN l : \A j \in DOMAIN l : i < j => StrLess(l[i], l[j])

\* the (tag1, tag2, count) list Step 4 computes from the state before it
CrossCuttingPairs(reassigned, hier) ==
    find_cross_cutting_tags(apply_hierarchy_to_nodes(nodes, reassigned, hier, <<>>),
                            {t \in DOMAIN hier : hier[t].type = "high_level"})

\* C11: _apply_hierarchy_to_nodes is a function of its arguments: a second
\* call with the same nodes, reassignment map, hierarchy and cross-cutting
\* pairs returns the same nodes, whose high_level and low_level lists are
\* sorted whatever order the tag sets are iterated in; and no step changes
\* the input nodes.
C11_ApplyPure ==
    /\ [](pc = "done" =>
            /\ updated_nodes = apply_hierarchy_to_nodes(nodes, tag_reassignments,
                    hierarchy, CrossCuttingPairs(tag_reassignments, hierarchy))
            /\ \A i \in DOMAIN updated_nodes :
                   LET t == updated_nodes[i].tags
                   IN /\ IsSortedNames(t.high_level)
                      /\ IsSortedNames(t.low_level)
                      /\ \A l \in ListsOf(Range(t.high_level)) :
                             SortNames(l) = t.high_level
                      /\ \A l \in ListsOf(Range(t.low_level)) :
                             SortNames(l) = t.low_level)
    /\ [][nodes' = nodes]_vars

\* a returned document with two high-level tags and a low-level set in which
\* upper and lower case meet
C11_Witness ==
    /\ pc = "done"
    /\ \E i \in DOMAIN updated_nodes :
          /\ Len(updated_nodes[i].tags.high_level) = 2
          /\ TagAVariant \in Range(updated_nodes[i].tags.low_level)
          /\ Len(updated_nodes[i].tags.low_level) >= 2


\* the returned documents whose high_level list holds both tags
HoldBoth(tagA, tagB) ==
    {i \in DOMAIN updated_nodes :
        {tagA, tagB} \subseteq Range(updated_nodes[i].tags.high_level)}

\* C13: in the returned hierarchy a pair of tags A < B has a cross-cutting
\* entry (low_level, parents [A, B], cross_cutting, document_count the number
\* of documents holding both as high-level tags) exactly when that number
\* reaches cross_cutting_threshold, and the joined name is in the low_level
\* list of exactly the documents whose high_level list holds both.
C13_CrossCuttingExact ==
    pc = "done" =>
        \A tagA \in TagNames : \A tagB \in TagNames :
            StrLess(tagA, tagB) =>
                LET name == tagA \o <<" ">> \o tagB
                    both == HoldBoth(tagA, tagB)
                    made == Cardinality(both) >= cross_cutting_threshold
                IN /\ made <=> name \in DOMAIN hierarchy
                   /\ made => hierarchy[name] =
                          [type |-> "low_level", children |-> <<>>, parent |-> None,
                           parents |-> <<tagA, tagB>>,
                           document_count |-> Cardinality(both),
                           cross_cutting |-> TRUE]
                   /\ \A i \in DOMAIN updated_nodes :
                          name \in Range(updated_nodes[i].tags.low_level)
                              <=> (made /\ i \in both)

\* a returned hierarchy with a cross-cutting entry whose name is among the
\* low-level tags of one document and not of the other
C13_Witness ==
    /\ pc = "done"
    /\ \E t \in DOMAIN hierarchy :
          /\ hierarchy[t].cross_cutting
          /\ \E i \in DOMAIN updated_nodes : \E j \in DOMAIN updated_nodes :
                /\ t \in Range(updated_nodes[i].tags.low_level)
                /\ t \notin Range(updated_nodes[j].tags.low_level)

\* the documents (by position) that hold tag t when it is split in the given
\* pass: in its flat list for the first pass, as a low-level tag after the
\* first pass for the second
Holders(t, pass) ==
    IF pass = 1
    THEN {i \in DOMAIN nodes : t \in Range(TagsIter(nodes[i].tags))}
    ELSE {i \in DOMAIN temp_nodes : t \in Range(LowLevelOf(temp_nodes[i].tags))}

\* C19: in the returned nodes, every tag split during the build (in either
\* pass) is in the high_level list of each document holding it, with the
\* sub-tags its reassignment gives that document in low_level; a tag of the
\* document that was never split is in low_level.
C19_SplitsReachDocuments ==
    pc = "done" =>
        /\ \A h \in DOMAIN history : \A i \in Holders(history[h].tag, history[h].pass) :
               LET t == history[h].tag
                   r == tag_reassignments[t].reassignments
                   id == updated_nodes[i].id
               IN /\ t \in Range(updated_nodes[i].tags.high_level)
                  /\ id \in DOMAIN r =>
                         Range(r[id]) \subseteq Range(updated_nodes[i].tags.low_level)
        /\ \A i \in DOMAIN nodes : \A t \in Range(TagsIter(nodes[i].tags)) :
               t \notin already_split =>
                   t \in Range(updated_nodes[i].tags.low_level)

\* the single parent an entry of the hierarchy names, None if there is none
ParentOf(t) == IF t \in DOMAIN hierarchy THEN hierarchy[t].parent ELSE None

\* C20: the second pass is the last one, and in the returned hierarchy the
\* chain of parent references from any tag ends within three tags: no tag
\* is its own ancestor and there is no fourth level.
C20_ThreeLevels ==
    /\ \A h \in DOMAIN history : history[h].pass \in {1, 2}
    /\ pc = "done" =>
           \A t \in DOMAIN hierarchy : ParentOf(ParentOf(ParentOf(t))) = None

\* C21: every tag the second pass considers or splits is a sub-tag made by a
\* first-pass split: it has a hierarchy entry that names a parent, and right
\* after its split that entry is high_level with the new sub-tags as children.
C21_SecondPassSplitsSubTags ==
    /\ pc = "pass2" =>
           \A k \in DOMAIN queue :
               /\ queue[k][1] \in DOMAIN hierarchy
               /\ hierarchy[queue[k][1]].parent # None
    /\ (/\ history # <<>>
        /\ history[Len(history)].pass = 2
        /\ last.tag = history[Len(history)].tag
        /\ last.pass = 2) =>
           LET h == history[Len(history)]
           IN /\ h.tag \in DOMAIN hierarchy
              /\ hierarchy[h.tag].type = "high_level"
              /\ hierarchy[h.tag].children = h.sub_tags
              /\ hierarchy[h.tag].parent # None

\* where a tag is first met when the documents' tag lists are read in order
Discovery(t) ==
    LET all == Concat([i \in DOMAIN nodes |-> TagsIter(nodes[i].tags)])
    IN CHOOSE i \in DOMAIN all : all[i] = t /\ \A j \in 1..(i - 1) : all[j] # t

\* (tag, count) e is consulted before f: larger count first, equal counts in
\* order of discovery
ConsultedBefore(e, f) ==
    \/ e[2] > f[2]
    \/ e[2] = f[2] /\ Discovery(e[1]) < Discovery(f[1])

Carriers(t) ==
    {i \in DOMAIN nodes :
        IF nodes[i].tags.kind = "list" THEN t \in Range(nodes[i].tags.items)
        ELSE t \in Range(LowLevelOf(nodes[i].tags))}

\* C23: analyze_tag_distribution gives each tag the number of documents that
\* carry it, which is the number of member documents gathered for the tag
\* when the first pass comes to split it.
C23_CountIsDocuments ==
    /\ pc # "start" =>
           \A c \in Range(analyze_tag_distribution(nodes)) :
               c[2] = Cardinality(Carriers(c[1]))
    /\ pc = "pass1" =>
           \A k \in DOMAIN queue :
               queue[k][2] = Len(SelectSeq(nodes,
                   LAMBDA node : queue[k][1] \in Range(TagsIter(node.tags))))

\* C25: when build_hierarchy is run on a node whose tags are already in
\* {high_level, low_level} form, the node it returns keeps every low_level
\* tag of the input (in low_level, or in high_level when the tag was split in
\* this run) and carries no name besides the node's input tags, the
\* sub-tags assigned to it and cross-cutting tags.
C25_RerunKeepsTags ==
    pc = "done" =>
        \A i \in DOMAIN nodes :
            nodes[i].tags.kind = "dict" =>
                LET in_low == Range(LowLevelOf(nodes[i].tags))
                    in_high == Range(HighLevelOf(nodes[i].tags))
                    out == updated_nodes[i].tags
                    assigned == UNION {
                        LET r == tag_reassignments[t].reassignments
                        IN IF nodes[i].id \in DOMAIN r THEN Range(r[nodes[i].id]) ELSE {} :
                        t \in DOMAIN tag_reassignments}
                    cross == {t \in DOMAIN hierarchy : hierarchy[t].cross_cutting}
                IN /\ \A t \in in_low :
                          \/ t \in Range(out.low_level)
                          \/ t \in DOMAIN tag_reassignments /\ t \in Range(out.high_level)
                   /\ Range(out.high_level) \cup Range(out.low_level)
                          \subseteq in_low \cup in_high \cup assigned \cup cross

\* C28: in every node build_hierarchy returns, no tag name is both in
\* high_level and in low_level.
C28_LevelsDisjoint ==
    pc = "done" =>
        \A i \in DOMAIN updated_nodes :
            Range(updated_nodes[i].tags.high_level)
                \cap Range(updated_nodes[i].tags.low_level) = {}

\* C29: the tags a split of T gives to a document are among the sub-tags
\* accepted for T, and only member documents of T are given any: for every
\* split tag T of a returned build, every document in T's reassignment map
\* carried T when T was split, and the tags the map holds for it, which are
\* the tags T's split adds to its low_level list, are accepted sub-tags of T.
C29_OnlyAcceptedSubTags ==
    pc = "done" =>
        \A T \in DOMAIN tag_reassignments :
            LET accepted == Range(tag_reassignments[T].sub_tags)
                r == tag_reassignments[T].reassignments
            IN \A id \in DOMAIN r :
                  /\ \E i \in DOMAIN nodes :
                         /\ nodes[i].id = id
                         /\ \/ T \in Range(TagsIter(nodes[i].tags))
                            \/ T \in Range(temp_nodes[i].tags.low_level)
                  /\ Range(r[id]) \subseteq accepted
                  /\ \A i \in DOMAIN nodes :
                         (nodes[i].id = id /\ T \in Range(TagsIter(nodes[i].tags))) =>
                             \A t \in Range(r[id]) :
                                 /\ t \in Range(updated_nodes[i].tags.low_level)
                                 /\ t \in accepted

(***************************************************************************)
(* SimilarityService: get_similar_pairs and get_top_k_pairs.               *)
(* Scores are levels 0 < 1 standing for floats; items are numbered from 1. *)
(***************************************************************************)
Scores == {0, 1}

Min(x, y) == IF x < y THEN x ELSE y
Max(x, y) == IF x < y THEN y ELSE x

Reverse(s) == [i \in DOMAIN s |-> s[Len(s) + 1 - i]]

\* threshold if threshold is not None else self.similarity_threshold
\* (an optional value is the empty set or a singleton)
EffectiveThreshold(given, default) ==
    IF given # {} THEN CHOOSE v \in given : TRUE ELSE default

AboveStrict(similarity, th) == similarity > th

AboveOrEqual(similarity, th) == similarity >= th

AboveInclusive(similarity, th) == similarity >= th

Above(similarity, th) == similarity > th

\* the inner loop of get_similar_pairs for row i, from column j on
RECURSIVE SimilarPairsFrom(_, _, _, _, _)
SimilarPairsFrom(matrix, ids, th, i, j) ==
    IF j > Len(ids) THEN <<>>
    ELSE (IF Above(matrix[i][j], th)
          THEN << <<ids[i], ids[j], matrix[i][j]>> >> ELSE <<>>)
         \o SimilarPairsFrom(matrix, ids, th, i, j + 1)

RECURSIVE SimilarPairsRows(_, _, _, _)
SimilarPairsRows(matrix, ids, th, i) ==
    IF i > Len(ids) THEN <<>>
    ELSE SimilarPairsFrom(matrix, ids, th, i, i + 1)
         \o SimilarPairsRows(matrix, ids, th, i + 1)

get_similar_pairs(matrix, ids, given) ==
    SimilarPairsRows(matrix, ids, EffectiveThreshold(given, similarity_threshold), 1)

\* np.argsort(similarities): an index order that sorts the row ascending; the
\* default sort is not stable, so equal scores come in any order
ArgSorts(similarities) ==
    {p \in [DOMAIN similarities -> DOMAIN similarities] :
        /\ \A a \in DOMAIN p : \A b \in DOMAIN p : a # b => p[a] # p[b]
        /\ \A a \in DOMAIN p : \A b \in DOMAIN p :
               a < b => similarities[p[a]] <= similarities[p[b]]}

\* the first top_k of the reversed order, the row's own index dropped afterwards
TopIndicesSelfCounted(order, i, k) ==
    SelectSeq(SubSeq(Reverse(order), 1, Min(k, Len(order))), LAMBDA idx : idx # i)

\* [idx for idx in order[::-1] if idx != i][:top_k]
TopIndices(order, i, k) ==
    LET others == SelectSeq(Reverse(order), LAMBDA idx : idx # i)
    IN SubSeq(others, 1, Min(k, Len(others)))

EdgeAsFound(ids, i, j, similarity) == <<ids[i], ids[j], similarity>>

\* always the lower index first
Edge(ids, i, j, similarity) == <<ids[Min(i, j)], ids[Max(i, j)], similarity>>

\* the edges row i adds to pairs_set, given the order argsort returned
RowEdges(matrix, ids, i, order, k, floor) ==
    LET top_indices == TopIndices(order, i, k)
    IN {Edge(ids, i, top_indices[n], matrix[i][top_indices[n]]) :
            n \in {m \in DOMAIN top_indices :
                     AboveOrEqual(matrix[i][top_indices[m]], floor)}}

\* stable sort by score, largest first, of a list of edges
RECURSIVE InsertByScore(_, _)
InsertByScore(sorted, edge) ==
    IF sorted = <<>> THEN <<edge>>
    ELSE IF Head(sorted)[3] >= edge[3]
         THEN <<Head(sorted)>> \o InsertByScore(Tail(sorted), edge)
         ELSE <<edge>> \o sorted

RECURSIVE SortByScoreDesc(_)
SortByScoreDesc(s) ==
    IF s = <<>> THEN <<>>
    ELSE InsertByScore(SortByScoreDesc(SubSeq(s, 1, Len(s) - 1)), s[Len(s)])

EdgeBefore(e, f) ==
    \/ e[1] < f[1]
    \/ e[1] = f[1] /\ e[2] < f[2]
    \/ e[1] = f[1] /\ e[2] = f[2] /\ e[3] < f[3]

RECURSIVE EdgeList(_)
EdgeList(S) ==
    IF S = {} THEN <<>>
    ELSE LET m == CHOOSE e \in S : \A f \in S \ {e} : EdgeBefore(e, f)
         IN <<m>> \o EdgeList(S \ {m})

\* list(pairs_set): the iteration order of a set is not fixed; the model takes
\* two of the possible orders
SetOrders(S) == {EdgeList(S), Reverse(EdgeList(S))}

\* inputs
AsymmetricPairs(m) ==
    {ij \in (DOMAIN m) \X (DOMAIN m) :
        ij[1] < ij[2] /\ m[ij[1]][ij[2]] # m[ij[2]][ij[1]]}

\* score matrices: one value on the diagonal, symmetric or asymmetric in one pair
Matrices(n) ==
    {m \in [1..n -> [1..n -> Scores]] :
        /\ \A i \in 1..n : m[i][i] = m[1][1]
        /\ Cardinality(AsymmetricPairs(m)) \in {0, 1}}
\* distinct document ids, in index order or against it
IdLists(n) == {[i \in 1..n |-> 10 + i], [i \in 1..n |-> 10 + n + 1 - i]}

EInit ==
    /\ \E n \in 0..MaxItems :
          /\ similarity_matrix \in Matrices(n)
          /\ document_ids \in IdLists(n)
    /\ \/ /\ ePc = "top_k"
          /\ top_k \in 0..MaxK
          /\ min_similarity \in Scores
          /\ threshold = {}
          /\ similarity_threshold = 0
       \/ /\ ePc = "threshold"
          /\ threshold \in {{}} \cup {{v} : v \in Scores}
          /\ similarity_threshold \in Scores
          /\ top_k = 0
          /\ min_similarity = 0
    /\ row = 1
    /\ pairs_set = {}
    /\ similar_pairs = <<>>

GetSimilarPairs ==
    /\ ePc = "threshold"
    /\ similar_pairs' = get_similar_pairs(similarity_matrix, document_ids, threshold)
    /\ ePc' = "returned_threshold"
    /\ UNCHANGED <<similarity_threshold, similarity_matrix, document_ids, top_k,
                   min_similarity, threshold, row, pairs_set>>

\* if len(document_ids) == 0: return []
TopKEmpty ==
    /\ ePc = "top_k"
    /\ Len(document_ids) = 0
    /\ similar_pairs' = <<>>
    /\ ePc' = "returned_top_k"
    /\ UNCHANGED <<similarity_threshold, similarity_matrix, document_ids, top_k,
                   min_similarity, threshold, row, pairs_set>>

\* one iteration of `for i in range(len(document_ids))`
TopKRow ==
    /\ ePc = "top_k"
    /\ Len(document_ids) # 0
    /\ row <= Len(document_ids)
    /\ \E order \in ArgSorts(similarity_matrix[row]) :
          pairs_set' = pairs_set \cup RowEdges(similarity_matrix, document_ids, row,
                                               order, top_k, min_similarity)
    /\ row' = row + 1
    /\ UNCHANGED <<ePc, similarity_threshold, similarity_matrix, document_ids, top_k,
                   min_similarity, threshold, similar_pairs>>

\* the sort and the return
TopKReturn ==
    /\ ePc = "top_k"
    /\ Len(document_ids) # 0
    /\ row > Len(document_ids)
    /\ \E listed \in SetOrders(pairs_set) : similar_pairs' = SortByScoreDesc(listed)
    /\ ePc' = "returned_top_k"
    /\ UNCHANGED <<similarity_threshold, similarity_matrix, document_ids, top_k,
                   min_similarity, threshold, row, pairs_set>>

HIdle ==
    /\ split_threshold = 0 /\ cross_cutting_threshold = 0 /\ nodes = <<>>
    /\ pc = "off" /\ hierarchy = <<>> /\ already_split = {}
    /\ tag_reassignments = <<>> /\ queue = <<>> /\ temp_nodes = <<>>
    /\ updated_nodes = <<>> /\ history = <<>>
    /\ last = [tag |-> None, kind |-> "none", pass |-> 0, suggested |-> <<>>]

InitEdges == HIdle /\ EInit /\ CIdle /\ SIdle /\ RIdle

NextEdges ==
    \/ GetSimilarPairs /\ UNCHANGED <<hvars, cvars, svars, rvars>>
    \/ TopKEmpty /\ UNCHANGED <<hvars, cvars, svars, rvars>>
    \/ TopKRow /\ UNCHANGED <<hvars, cvars, svars, rvars>>
    \/ TopKReturn /\ UNCHANGED <<hvars, cvars, svars, rvars>>

SpecEdges == InitEdges /\ [][NextEdges]_vars

(***************************************************************************)
(* Properties of the edge builders (specification SpecEdges).              *)
(***************************************************************************)
\* C5: get_top_k_pairs returns no edge from a document to itself and never
\* both an edge (a, b) and an edge (b, a).
C5_NoLoopNoReverse ==
    ePc = "returned_top_k" =>
        \A k \in DOMAIN similar_pairs :
            /\ similar_pairs[k][1] # similar_pairs[k][2]
            /\ \A l \in DOMAIN similar_pairs :
                   ~(/\ similar_pairs[l][1] = similar_pairs[k][2]
                     /\ similar_pairs[l][2] = similar_pairs[k][1])

\* top-K returned several edges for ids listed against index order
C5_Witness ==
    /\ ePc = "returned_top_k"
    /\ top_k >= 1
    /\ Len(similar_pairs) >= 2
    /\ document_ids[1] > document_ids[2]

\* C6: in the list get_top_k_pairs returns, every unordered pair of
\* documents appears in at most one edge.
C6_Deduplicated ==
    ePc = "returned_top_k" =>
        \A k \in DOMAIN similar_pairs : \A l \in DOMAIN similar_pairs :
            k # l => {similar_pairs[k][1], similar_pairs[k][2]}
                        # {similar_pairs[l][1], similar_pairs[l][2]}

NodesOf(n) == 0..(n - 1)

\* labels = [-1] * num_nodes
Unlabelled(n) == [v \in NodesOf(n) |-> 0 - 1]

\* for cluster_id, comm in enumerate(communities): for node in comm: ...
RECURSIVE LabelCommunities(_, _, _)
LabelCommunities(lab, communities, k) ==
    IF k > Len(communities) THEN lab
    ELSE LabelCommunities(
            [v \in DOMAIN lab |-> IF v \in communities[k] THEN k - 1 ELSE lab[v]],
            communities, k + 1)

LabelsFromLargeOnly(communities, n) ==
    LabelCommunities(Unlabelled(n),
        [k \in DOMAIN communities |->
            IF Cardinality(communities[k]) > 1 THEN communities[k] ELSE {}], 1)

LabelsFrom(communities, n) == LabelCommunities(Unlabelled(n), communities, 1)

\* what networkx's louvain_communities may return: the communities of some
\* partition of the graph's nodes, in some order
Partitions(n) ==
    {[k \in 1..Cardinality({f[v] : v \in NodesOf(n)}) |-> {v \in NodesOf(n) : f[v] = k}] :
        f \in {g \in [NodesOf(n) -> 1..n] :
                 \A k \in 1..n : (\E v \in NodesOf(n) : g[v] = k) =>
                     \A j \in 1..k : \E w \in NodesOf(n) : g[w] = j}}

\* adjacency.get(node, [])
Neighbors(adj, v) == IF v \in DOMAIN adj THEN adj[v] ELSE {}

SameClusterId(c) == c

NextClusterId(c) == c + 1

UndirectedEdges(n) == {e \in SUBSET NodesOf(n) : Cardinality(e) = 2}

\* adjacency maps: an undirected graph, possibly with one more directed
\* entry (a one-way neighbour or a self-loop)
AdjacencyMaps(n) ==
    {[v \in NodesOf(n) |->
         {w \in NodesOf(n) : {v, w} \in g} \cup {x[2] : x \in {y \in extra : y[1] = v}}] :
       g \in SUBSET UndirectedEdges(n),
       extra \in {{}} \cup {{vw} : vw \in NodesOf(n) \X NodesOf(n)}}

CInit ==
    /\ cPc = "start"
    /\ num_nodes \in 0..MaxNodes
    /\ adjacency \in AdjacencyMaps(num_nodes)
    /\ path = "none"
    /\ labels = <<>>
    /\ visited = {}
    /\ cluster_id = 0
    /\ root = 0
    /\ stack = <<>>

\* the try block runs to its return
PrimaryReturns ==
    /\ cPc = "start"
    /\ \E communities \in Partitions(num_nodes) :
          labels' = LabelsFrom(communities, num_nodes)
    /\ path' = "primary"
    /\ cPc' = "returned"
    /\ UNCHANGED <<adjacency, num_nodes, visited, cluster_id, root, stack>>

\* importing networkx raises ImportError: the except clause calls the fallback
PrimaryImportError ==
    /\ cPc = "start"
    /\ path' = "fallback"
    /\ labels' = Unlabelled(num_nodes)
    /\ cluster_id' = 0
    /\ visited' = {}
    /\ root' = 0
    /\ cPc' = "components"
    /\ UNCHANGED <<adjacency, num_nodes, stack>>

\* the try block raises anything else (say louvain_communities is missing from
\* the installed networkx, or raises): no except clause matches
PrimaryRaises ==
    /\ cPc = "start"
    /\ cPc' = "raised"
    /\ UNCHANGED <<adjacency, num_nodes, path, labels, visited, cluster_id, root, stack>>

\* for node in range(num_nodes): if node not in visited: dfs(node, cluster_id)
ComponentsVisit ==
    /\ cPc = "components"
    /\ stack = <<>>
    /\ root < num_nodes
    /\ IF root \notin visited
       THEN /\ visited' = visited \cup {root}
            /\ labels' = [labels EXCEPT ![root] = cluster_id]
            /\ stack' = <<[node |-> root, todo |-> Neighbors(adjacency, root)]>>
            /\ root' = root
       ELSE /\ root' = root + 1
            /\ UNCHANGED <<visited, labels, stack>>
    /\ UNCHANGED <<cPc, adjacency, num_nodes, path, cluster_id>>

\* dfs: the next neighbour of the innermost call, visited recursively if new
DfsNeighbor ==
    /\ cPc = "components"
    /\ stack # <<>>
    /\ LET top == stack[Len(stack)]
       IN /\ top.todo # {}
          /\ \E neighbor \in top.todo :
               LET rest == [stack EXCEPT ![Len(stack)].todo = top.todo \ {neighbor}]
               IN IF neighbor \notin visited
                  THEN /\ visited' = visited \cup {neighbor}
                       /\ labels' = [labels EXCEPT ![neighbor] = cluster_id]
                       /\ stack' = Append(rest,
                              [node |-> neighbor, todo |-> Neighbors(adjacency, neighbor)])
                  ELSE /\ stack' = rest
                       /\ UNCHANGED <<visited, labels>>
    /\ UNCHANGED <<cPc, adjacency, num_nodes, path, cluster_id, root>>

\* dfs returns; after the outermost call: cluster_id += 1 and the next node
DfsReturn ==
    /\ cPc = "components"
    /\ stack # <<>>
    /\ stack[Len(stack)].todo = {}
    /\ stack' = SubSeq(stack, 1, Len(stack) - 1)
    /\ IF Len(stack) = 1
       THEN cluster_id' = NextClusterId(cluster_id) /\ root' = root + 1
       ELSE UNCHANGED <<cluster_id, root>>
    /\ UNCHANGED <<cPc, adjacency, num_nodes, path, labels, visited>>

ComponentsReturn ==
    /\ cPc = "components"
    /\ stack = <<>>
    /\ root >= num_nodes
    /\ cPc' = "returned"
    /\ UNCHANGED <<adjacency, num_nodes, path, labels, visited, cluster_id, root, stack>>

InitCommunity == HIdle /\ EIdle /\ CInit /\ SIdle /\ RIdle

NextCommunity ==
    \/ PrimaryReturns /\ UNCHANGED <<hvars, evars, svars, rvars>>
    \/ PrimaryImportError /\ UNCHANGED <<hvars, evars, svars, rvars>>
    \/ PrimaryRaises /\ UNCHANGED <<hvars, evars, svars, rvars>>
    \/ ComponentsVisit /\ UNCHANGED <<hvars, evars, svars, rvars>>
    \/ DfsNeighbor /\ UNCHANGED <<hvars, evars, svars, rvars>>
    \/ DfsReturn /\ UNCHANGED <<hvars, evars, svars, rvars>>
    \/ ComponentsReturn /\ UNCHANGED <<hvars, evars, svars, rvars>>

SpecCommunity == InitCommunity /\ [][NextCommunity]_vars

\* the ascending index order of a row whose reversal lists equal scores by
\* ascending index
LowIndexFirst(similarities) ==
    CHOOSE p \in ArgSorts(similarities) :
        \A a \in DOMAIN p : \A b \in DOMAIN p :
            (a < b /\ similarities[p[a]] = similarities[p[b]]) => p[a] > p[b]

\* C14: each row of get_top_k_pairs selects, among partners of equal score
\* that do not all fit in the top_k slots, those with the lower original
\* index: the edges a row adds are those of the index-order tie-break.
C14_TiesByIndex ==
    [][(ePc = "top_k" /\ row' = row + 1) =>
          pairs_set' = pairs_set \cup
              RowEdges(similarity_matrix, document_ids, row,
                       LowIndexFirst(similarity_matrix[row]), top_k, min_similarity)]_vars

\* the sets of top_k highest-scoring partners of item i: as many partners as
\* fit, none left out that scores higher than one taken
TopPartnerSets(matrix, i, k) ==
    LET others == (DOMAIN matrix) \ {i}
    IN {S \in SUBSET others :
          /\ Cardinality(S) = Min(k, Cardinality(others))
          /\ \A a \in S : \A b \in others \ S : matrix[i][a] >= matrix[i][b]}

\* the edge sets that rows 1 .. i can produce
RECURSIVE TopKEdgeSets(_, _, _, _, _)
TopKEdgeSets(matrix, ids, k, floor, i) ==
    IF i = 0 THEN {{}}
    ELSE {E \cup {<<ids[Min(i, j)], ids[Max(i, j)], matrix[i][j]>> :
                     j \in {x \in S : matrix[i][x] >= floor}} :
            E \in TopKEdgeSets(matrix, ids, k, floor, i - 1),
            S \in TopPartnerSets(matrix, i, k)}

\* C15: the edges get_top_k_pairs returns are exactly those joining an item
\* to one of its top_k highest-scoring partners with a score at or above
\* min_similarity, each listed once, in non-increasing order of score.
C15_TopKEdgesExact ==
    ePc = "returned_top_k" =>
        /\ Range(similar_pairs) \in
               TopKEdgeSets(similarity_matrix, document_ids, top_k, min_similarity,
                            Len(document_ids))
        /\ Cardinality(Range(similar_pairs)) = Len(similar_pairs)
        /\ \A a \in DOMAIN similar_pairs : \A b \in DOMAIN similar_pairs :
               a < b => similar_pairs[a][3] >= similar_pairs[b][3]

\* three items, two slots each, only the first two scoring at the floor with
\* each other: the one edge between them is returned
C15_Witness ==
    /\ ePc = "returned_top_k"
    /\ Len(document_ids) = 3
    /\ top_k = 2
    /\ min_similarity = 1
    /\ \A i \in 1..3 : \A j \in 1..3 :
           i # j => (similarity_matrix[i][j] = 1 <=> {i, j} = {1, 2})
    /\ similar_pairs = <<<<Min(document_ids[1], document_ids[2]),
                           Max(document_ids[1], document_ids[2]), 1>>>>

\* C16: for a symmetric matrix and top_k >= N - 1, get_top_k_pairs returns
\* one edge for every unordered pair with a score at or above min_similarity
\* and nothing else; for N = 0 and N = 1 it returns no edge.
C16_FullKIsScan ==
    (/\ ePc = "returned_top_k"
     /\ AsymmetricPairs(similarity_matrix) = {}
     /\ top_k >= Len(document_ids) - 1) =>
        LET n == Len(document_ids)
            scan == {<<document_ids[i], document_ids[j], similarity_matrix[i][j]>> :
                        i \in 1..n, j \in 1..n}
            kept == {e \in scan :
                        \E i \in 1..n : \E j \in 1..n :
                            /\ i < j
                            /\ e = <<document_ids[i], document_ids[j],
                                     similarity_matrix[i][j]>>
                            /\ similarity_matrix[i][j] >= min_similarity}
        IN /\ Range(similar_pairs) = kept
           /\ Len(similar_pairs) = Cardinality(kept)
           /\ n <= 1 => similar_pairs = <<>>

\* three items with two slots each and a symmetric matrix: two pairs reach
\* the floor, one stays below it
C16_Witness ==
    /\ ePc = "returned_top_k"
    /\ Len(document_ids) = 3
    /\ top_k = 2
    /\ AsymmetricPairs(similarity_matrix) = {}
    /\ min_similarity = 1
    /\ Len(similar_pairs) = 2

(***************************************************************************)
(* Properties of community detection (specification SpecCommunity).        *)
(***************************************************************************)
\* C8: whenever the detector returns, by the primary path or by the
\* fallback, the label list has one entry per node 0 .. num_nodes - 1 and
\* every entry is a non-negative cluster label.
C8_TotalPartition ==
    cPc = "returned" =>
        /\ DOMAIN labels = NodesOf(num_nodes)
        /\ \A v \in NodesOf(num_nodes) : labels[v] >= 0

\* the primary path returned for a graph that has a node without neighbours
\* next to other nodes, and gave that node a cluster of its own
C8_Witness ==
    /\ cPc = "returned"
    /\ path = "primary"
    /\ num_nodes >= 2
    /\ \E v \in NodesOf(num_nodes) :
          /\ adjacency[v] = {}
          /\ \A w \in NodesOf(num_nodes) \ {v} : labels[w] # labels[v]

Symmetric(adj) ==
    \A v \in DOMAIN adj : \A w \in adj[v] : w \in DOMAIN adj /\ v \in adj[w]

\* the nodes joined to v by a path of at most k steps
RECURSIVE Within(_, _, _)
Within(adj, v, k) ==
    IF k = 0 THEN {v}
    ELSE LET near == Within(adj, v, k - 1)
         IN near \cup UNION {adj[w] : w \in near}

Component(adj, v) == Within(adj, v, Cardinality(DOMAIN adj))

Smallest(S) == CHOOSE x \in S : \A y \in S : x <= y

\* C9: for a symmetric adjacency map the connected-components fallback
\* gives two nodes the same label exactly when a path joins them, and the
\* labels are 0 .. k-1, the components numbered by their smallest member.
C9_ComponentsExact ==
    (cPc = "returned" /\ path = "fallback" /\ Symmetric(adjacency)) =>
        LET N == NodesOf(num_nodes)
            comps == {Component(adjacency, v) : v \in N}
        IN /\ \A v \in N : \A w \in N :
                  (labels[v] = labels[w]) <=> (w \in Component(adjacency, v))
           /\ {labels[v] : v \in N} = 0..(Cardinality(comps) - 1)
           /\ \A v \in N : \A w \in N :
                  Smallest(Component(adjacency, v)) < Smallest(Component(adjacency, w))
                      => labels[v] < labels[w]

\* the fallback returned for a symmetric graph with a component of two
\* nodes and a node without neighbours
C9_Witness ==
    /\ cPc = "returned"
    /\ path = "fallback"
    /\ Symmetric(adjacency)
    /\ \E v \in NodesOf(num_nodes) : adjacency[v] = {}
    /\ \E v \in NodesOf(num_nodes) : \E w \in NodesOf(num_nodes) :
          v # w /\ labels[v] = labels[w]

\* C10: a failure of the primary algorithm, whatever it raises, never leaves
\* community_detection_louvain: the call goes on to the connected-components
\* fallback; and the fallback runs only after such a failure.
C10_FallbackOnFailure ==
    /\ cPc # "raised"
    /\ path = "fallback" => cPc \in {"components", "returned"}

(***************************************************************************)
(* Single calls of TagHierarchyService methods (specification SpecService). *)
(***************************************************************************)
NameChars == {"a", "b", "A", " "}

\* the strings of at most n characters
RECURSIVE Names(_)
Names(n) ==
    IF n = 0 THEN {<<>>}
    ELSE Names(n - 1) \cup {Append(w, ch) : w \in Names(n - 1), ch \in NameChars}

CreateArgs ==
    {[fn |-> "create_cross_cutting_tag", tag1 |-> t, tag2 |-> u] :
        t \in Names(MaxNameLen), u \in Names(MaxNameLen)}

\* member documents: only their number and ids matter to the calls modelled
Documents(n) == [i \in 1..n |-> [id |-> i]]

\* numbers of member documents on both sides of every step of the cap
DocCounts == {1, 15, 16, 25, 26, 35, 36}

\* the lists of at most n tag names
RECURSIVE TagListsUpTo(_)
TagListsUpTo(n) ==
    IF n = 0 THEN {<<>>}
    ELSE TagListsUpTo(n - 1)
         \cup {Append(l, t) : l \in {m \in TagListsUpTo(n - 1) : Len(m) = n - 1},
                              t \in TagNames}

SuggestArgs ==
    {[fn |-> "suggest_sub_tags", parent_tag |-> t, documents |-> Documents(n),
      reply |-> r] :
        t \in {TagA}, n \in DocCounts,
        r \in {[kind |-> "raise"], [kind |-> "not_object"]}
              \cup {[kind |-> "object", should_split |-> b, sub_tags |-> l] :
                      b \in BOOLEAN, l \in TagListsUpTo(MaxReplyTags)}}

\* numbers of member documents that make one, two and three batches
BatchedCounts == {1, 10, 11, 21}

\* replies of the reassignment oracle for one batch: the call fails, or it
\* returns no item, one tag for every document of the batch, one tag for its
\* first document only, or an item for a document of another batch
CallBatchReplies(documents, batch) ==
    {[kind |-> "raise"], [kind |-> "items", items |-> <<>>],
     [kind |-> "items", items |-> <<[id |-> batch[1].id, selected_tags |-> <<TagB>>]>>]}
    \cup {[kind |-> "items",
           items |-> [i \in DOMAIN batch |-> [id |-> batch[i].id, selected_tags |-> <<t>>]]] :
            t \in {TagC, TagAVariant}}
    \cup {[kind |-> "items", items |-> <<[id |-> documents[i].id, selected_tags |-> <<TagC>>]>>] :
            i \in {j \in {1, Len(documents)} : documents[j].id \notin {batch[b].id : b \in DOMAIN batch}}}

ReassignArgs ==
    UNION {
        {[fn |-> "reassign_documents_to_subtags", parent_tag |-> TagA,
          sub_tags |-> <<TagB, TagC>>, documents |-> Documents(n), replies |-> r] :
            r \in {q \in [1..NumBatches(Documents(n)) ->
                            UNION {CallBatchReplies(Documents(n), Batch(Documents(n), k)) :
                                      k \in 1..NumBatches(Documents(n))}] :
                      \A k \in 1..NumBatches(Documents(n)) :
                          q[k] \in CallBatchReplies(Documents(n), Batch(Documents(n), k))}} :
        n \in BatchedCounts}

SInit ==
    /\ sPc = "call"
    /\ args \in CreateArgs \cup SuggestArgs \cup ReassignArgs
    /\ result = <<>>

SuggestSubTags ==
    /\ sPc = "call"
    /\ args.fn = "suggest_sub_tags"
    /\ result' = suggest_sub_tags(args.parent_tag, args.documents, args.reply)
    /\ sPc' = "returned"
    /\ UNCHANGED args

CreateCrossCuttingTag ==
    /\ sPc = "call"
    /\ args.fn = "create_cross_cutting_tag"
    /\ result' = create_cross_cutting_tag(args.tag1, args.tag2)
    /\ sPc' = "returned"
    /\ UNCHANGED args

ReassignDocuments ==
    /\ sPc = "call"
    /\ args.fn = "reassign_documents_to_subtags"
    /\ result' = reassign_documents_to_subtags(args.parent_tag, args.sub_tags,
                                                args.documents, args.replies)
    /\ sPc' = "returned"
    /\ UNCHANGED args

InitService == HIdle /\ EIdle /\ CIdle /\ SInit /\ RIdle

NextService ==
    \/ CreateCrossCuttingTag /\ UNCHANGED <<hvars, evars, cvars, rvars>>
    \/ SuggestSubTags /\ UNCHANGED <<hvars, evars, cvars, rvars>>
    \/ ReassignDocuments /\ UNCHANGED <<hvars, evars, cvars, rvars>>

SpecService == InitService /\ [][NextService]_vars

C17_CapEnforced ==
    (sPc = "returned" /\ args.fn = "suggest_sub_tags" /\ result # NoSplit) =>
        Len(result) <= max_sub_tags(Len(args.documents))

\* the documents at positions 10(k-1)+1 .. 10k of the list
TenDocuments(documents, k) ==
    {documents[i].id : i \in {j \in DOMAIN documents : (j + 9) \div 10 = k}}

\* every reply names only documents of the batch it answers
RepliesKeepToBatch ==
    \A k \in DOMAIN args.replies :
        args.replies[k].kind = "items" =>
            \A n \in DOMAIN args.replies[k].items :
                args.replies[k].items[n].id \in TenDocuments(args.documents, k)

BatchContribution(k) ==
    LET batch == Batch(args.documents, k)
    IN IF args.replies[k].kind = "raise"
       THEN [id \in {batch[i].id : i \in DOMAIN batch} |-> <<>>]
       ELSE reassign_batch(args.parent_tag, args.sub_tags, batch, args.replies[k])

\* the map merged with the batches taken from the last to batch k
RECURSIVE MergedFromLast(_)
MergedFromLast(k) ==
    IF k > NumBatches(args.documents) THEN EmptyDict
    ELSE DictUpdate(MergedFromLast(k + 1), BatchContribution(k))

\* C24: the map reassign_documents_to_subtags returns does not depend on the
\* order in which the batches are merged: every batch contributes entries
\* for its own documents only, and merging from the last batch to the first
\* gives the same map.
C24_BatchOrderIrrelevant ==
    (sPc = "returned" /\ args.fn = "reassign_documents_to_subtags") =>
        /\ \A k \in 1..NumBatches(args.documents) :
               DOMAIN BatchContribution(k) \subseteq TenDocuments(args.documents, k)
        /\ LET raw == MergedFromLast(1)
           IN result = [id \in DOMAIN raw |-> FilterParentName(args.parent_tag, raw[id])]

(***************************************************************************)
(* SimilarityRepository, TagRepository and the edge-saving loop of         *)
(* generate_knowledge_graph_task, called in any order on one database      *)
(* (specification SpecRepository).  Of a similarity row only the two       *)
(* document ids are kept, of a tag row only its id and orphaned_doc_count. *)
(***************************************************************************)
RepoDocIds == {<<"a">>, <<"b">>, <<"a", "b">>}
RepoTagIds == {1, 2}
\* the counts a caller passes to reset_orphan_count
ResetCounts == {0 - 1, 0, 2}

SimilarityRow(source_id, target_id) ==
    [source_document_id |-> source_id, target_document_id |-> target_id]

\* if source_id > target_id: source_id, target_id = target_id, source_id
CanonicalRow(source_id, target_id) ==
    IF StrLess(target_id, source_id)
    THEN SimilarityRow(target_id, source_id)
    ELSE SimilarityRow(source_id, target_id)

\* uq_document_similarities_pair: the flush of new rows fails when two of
\* them, or one of them and a stored row, have the same (source, target)
UniquePairs(table, objects) ==
    /\ \A k \in DOMAIN objects : objects[k] \notin table
    /\ \A k \in DOMAIN objects : \A l \in DOMAIN objects :
           k # l => objects[k] # objects[l]

\* the lists of at most two (source, target) pairs handed to a call
EdgeLists ==
    {<<>>} \cup {<<e>> : e \in RepoDocIds \X RepoDocIds}
           \cup {<<e, f>> : e \in RepoDocIds \X RepoDocIds, f \in RepoDocIds \X RepoDocIds}

\* the loop over graph_data["edges"]: self-loops skipped, the rest ordered
RECURSIVE EdgeObjects(_)
EdgeObjects(edges) ==
    IF edges = <<>> THEN <<>>
    ELSE LET source == Head(edges)[1]
             target == Head(edges)[2]
             swapped == CanonicalRow(source, target)
         IN IF source = target THEN EdgeObjects(Tail(edges))
            ELSE IF ~StrLess(swapped.source_document_id, swapped.target_document_id)
                 THEN EdgeObjects(Tail(edges))
                 ELSE <<swapped>> \o EdgeObjects(Tail(edges))

Outcome(fn, tag_id, count, found, raised) ==
    [fn |-> fn, tag_id |-> tag_id, count |-> count, found |-> found, raised |-> raised]

RInit ==
    /\ document_similarities = {}
    /\ orphaned_doc_count = [id \in {1} |-> 0]
    /\ returned = Outcome("none", 0, 0, FALSE, FALSE)
    /\ calls = 0

CreateSimilarity ==
    /\ calls < MaxCalls
    /\ \E source_id \in RepoDocIds, target_id \in RepoDocIds :
         LET similarity == CanonicalRow(source_id, target_id)
         IN IF UniquePairs(document_similarities, <<similarity>>)
            THEN /\ document_similarities' = document_similarities \cup {similarity}
                 /\ returned' = Outcome("create_similarity", 0, 0, FALSE, FALSE)
            ELSE /\ returned' = Outcome("create_similarity", 0, 0, FALSE, TRUE)
                 /\ UNCHANGED document_similarities
    /\ calls' = calls + 1
    /\ UNCHANGED orphaned_doc_count

BulkCreateSimilarities ==
    /\ calls < MaxCalls
    /\ \E similarities \in EdgeLists :
         LET objects == [k \in DOMAIN similarities |->
                            CanonicalRow(similarities[k][1], similarities[k][2])]
         IN IF UniquePairs(document_similarities, objects)
            THEN /\ document_similarities' = document_similarities \cup Range(objects)
                 /\ returned' = Outcome("bulk_create_similarities", 0, 0, FALSE, FALSE)
            ELSE /\ returned' = Outcome("bulk_create_similarities", 0, 0, FALSE, TRUE)
                 /\ UNCHANGED document_similarities
    /\ calls' = calls + 1
    /\ UNCHANGED orphaned_doc_count

DeleteForDocument ==
    /\ calls < MaxCalls
    /\ \E doc_id \in RepoDocIds :
         document_similarities' =
             {e \in document_similarities :
                 e.source_document_id # doc_id /\ e.target_document_id # doc_id}
    /\ returned' = Outcome("delete_for_document", 0, 0, FALSE, FALSE)
    /\ calls' = calls + 1
    /\ UNCHANGED orphaned_doc_count

\* save_to_database: the tags of the graph that have no row yet get one
\* (orphaned_doc_count defaults to 0), then the edges are added and the
\* session is committed; a failing commit leaves the database as it was
SaveToDatabase ==
    /\ calls < MaxCalls
    /\ \E edges \in EdgeLists, new_tags \in SUBSET (RepoTagIds \ DOMAIN orphaned_doc_count) :
         LET objects == EdgeObjects(edges)
         IN IF UniquePairs(document_similarities, objects)
            THEN /\ document_similarities' = document_similarities \cup Range(objects)
                 /\ orphaned_doc_count' =
                        [id \in DOMAIN orphaned_doc_count \cup new_tags |->
                            IF id \in new_tags THEN 0 ELSE orphaned_doc_count[id]]
                 /\ returned' = Outcome("save_to_database", 0, 0, FALSE, FALSE)
            ELSE /\ returned' = Outcome("save_to_database", 0, 0, FALSE, TRUE)
                 /\ UNCHANGED <<document_similarities, orphaned_doc_count>>
    /\ calls' = calls + 1

IncrementOrphanCount ==
    /\ calls < MaxCalls
    /\ \E tag_id \in RepoTagIds :
         IF tag_id \in DOMAIN orphaned_doc_count
         THEN /\ orphaned_doc_count' =
                     [orphaned_doc_count EXCEPT ![tag_id] = orphaned_doc_count[tag_id] + 1]
              /\ returned' = Outcome("increment_orphan_count", tag_id, 0, TRUE, FALSE)
         ELSE /\ returned' = Outcome("increment_orphan_count", tag_id, 0, FALSE, FALSE)
              /\ UNCHANGED orphaned_doc_count
    /\ calls' = calls + 1
    /\ UNCHANGED document_similarities

DecrementOrphanCount ==
    /\ calls < MaxCalls
    /\ \E tag_id \in RepoTagIds :
         IF tag_id \in DOMAIN orphaned_doc_count
         THEN /\ orphaned_doc_count' =
                     [orphaned_doc_count EXCEPT
                         ![tag_id] = Max(0, orphaned_doc_count[tag_id] - 1)]
              /\ returned' = Outcome("decrement_orphan_count", tag_id, 0, TRUE, FALSE)
         ELSE /\ returned' = Outcome("decrement_orphan_count", tag_id, 0, FALSE, FALSE)
              /\ UNCHANGED orphaned_doc_count
    /\ calls' = calls + 1
    /\ UNCHANGED document_similarities

ResetOrphanCount ==
    /\ calls < MaxCalls
    /\ \E tag_id \in RepoTagIds, count \in ResetCounts :
         IF tag_id \in DOMAIN orphaned_doc_count
         THEN /\ orphaned_doc_count' = [orphaned_doc_count EXCEPT ![tag_id] = count]
              /\ returned' = Outcome("reset_orphan_count", tag_id, count, TRUE, FALSE)
         ELSE /\ returned' = Outcome("reset_orphan_count", tag_id, count, FALSE, FALSE)
              /\ UNCHANGED orphaned_doc_count
    /\ calls' = calls + 1
    /\ UNCHANGED document_similarities

InitRepository == HIdle /\ EIdle /\ CIdle /\ SIdle /\ RInit

NextRepository ==
    \/ CreateSimilarity /\ UNCHANGED <<hvars, evars, cvars, svars>>
    \/ BulkCreateSimilarities /\ UNCHANGED <<hvars, evars, cvars, svars>>
    \/ DeleteForDocument /\ UNCHANGED <<hvars, evars, cvars, svars>>
    \/ SaveToDatabase /\ UNCHANGED <<hvars, evars, cvars, svars>>
    \/ IncrementOrphanCount /\ UNCHANGED <<hvars, evars, cvars, svars>>
    \/ DecrementOrphanCount /\ UNCHANGED <<hvars, evars, cvars, svars>>
    \/ ResetOrphanCount /\ UNCHANGED <<hvars, evars, cvars, svars>>

SpecRepository == InitRepository /\ [][NextRepository]_vars

(***************************************************************************)
(* Properties of the repositories (specification SpecRepository).          *)
(***************************************************************************)
\* C26: every stored similarity edge has a source id different from its
\* target id and smaller than it, so an edge and its reverse are never both
\* stored.
C26_CanonicalEdges ==
    \A e \in document_similarities :
        /\ e.source_document_id # e.target_document_id
        /\ StrLess(e.source_document_id, e.target_document_id)
        /\ SimilarityRow(e.target_document_id, e.source_document_id)
               \notin document_similarities

\* C30: whatever calls of increment_orphan_count, decrement_orphan_count and
\* reset_orphan_count are made, no tag's orphaned_doc_count is ever negative
\* (a decrement at 0 leaves 0); an increment adds exactly 1, a reset sets
\* exactly the given count, and a call for a tag id that has no row returns
\* None and changes no tag.
C30_OrphanCounter ==
    [][LET fn == returned'.fn
           tag_id == returned'.tag_id
           others == \A id \in DOMAIN orphaned_doc_count :
                        id # tag_id => orphaned_doc_count'[id] = orphaned_doc_count[id]
       IN /\ \A id \in DOMAIN orphaned_doc_count' : orphaned_doc_count'[id] >= 0
          /\ fn \in {"increment_orphan_count", "decrement_orphan_count",
                     "reset_orphan_count"} =>
                IF returned'.found
                THEN /\ tag_id \in DOMAIN orphaned_doc_count
                     /\ DOMAIN orphaned_doc_count' = DOMAIN orphaned_doc_count
                     /\ others
                     /\ fn = "increment_orphan_count" =>
                            orphaned_doc_count'[tag_id] = orphaned_doc_count[tag_id] + 1
                     /\ fn = "decrement_orphan_count" =>
                            orphaned_doc_count'[tag_id] =
                                IF orphaned_doc_count[tag_id] = 0 THEN 0
                                ELSE orphaned_doc_count[tag_id] - 1
                     /\ fn = "reset_orphan_count" =>
                            orphaned_doc_count'[tag_id] = returned'.count
                ELSE /\ tag_id \notin DOMAIN orphaned_doc_count
                     /\ orphaned_doc_count' = orphaned_doc_count]_vars

(***************************************************************************)
(* SemanticProcessingService.create_relationships_with_graph, one call     *)
(* (specification SpecRelations).  A file is its id; the tags a file has   *)
(* in the database are a set of names per id.  The similarity score of a   *)
(* relationship is left out.                                               *)
(***************************************************************************)
MaxFiles == 3
FileIds == {1, 2, 3}
FileTagSets == SUBSET {TagA, TagB}
default_min_shared_tags == 2

\* the lists of at most n files; a caller may list a file twice
RECURSIVE FileLists(_)
FileLists(n) ==
    IF n = 0 THEN {<<>>}
    ELSE FileLists(n - 1)
         \cup {Append(l, f) : l \in {m \in FileLists(n - 1) : Len(m) = n - 1},
                              f \in FileIds}

RelationArgs ==
    {[fn |-> "create_relationships_with_graph", files |-> l, tags |-> t,
      min_shared |-> m] :
        l \in FileLists(MaxFiles), t \in [FileIds -> FileTagSets],
        m \in {{}, {0}, {1}, {2}}}

\* if min_shared is None: min_shared = self.min_shared_tags
\* (the optional argument is the empty set for None, else a one-element set)
MinShared(m) == IF m = {} THEN default_min_shared_tags ELSE CHOOSE v \in m : TRUE

SharesMore(shared_count, min_shared) == shared_count > min_shared

\* if shared_count >= min_shared
SharesEnough(shared_count, min_shared) == shared_count >= min_shared

\* the index pairs i < j (indices from 0) in the order of the two loops
RECURSIVE IndexPairs(_, _, _)
IndexPairs(n, i, j) ==
    IF i >= n THEN <<>>
    ELSE IF j >= n THEN IndexPairs(n, i + 1, i + 2)
    ELSE <<<<i, j>>>> \o IndexPairs(n, i, j + 1)

\* the index pairs for which the loop body creates a relationship
RelatedPairs(files, tags, min_shared) ==
    SelectSeq(IndexPairs(Len(files), 0, 1),
              LAMBDA p : SharesEnough(
                  Cardinality(tags[files[p[1] + 1]] \cap tags[files[p[2] + 1]]),
                  min_shared))

FileRelationship(source, target, shared) ==
    [source_file_id |-> source, target_file_id |-> target, shared_tag_count |-> shared]

relationships_of(files, tags, min_shared) ==
    LET related == RelatedPairs(files, tags, min_shared)
    IN [k \in DOMAIN related |->
           FileRelationship(files[related[k][1] + 1], files[related[k][2] + 1],
               Cardinality(tags[files[related[k][1] + 1]]
                           \cap tags[files[related[k][2] + 1]]))]

adjacency_of(files, tags, min_shared) ==
    LET related == Range(RelatedPairs(files, tags, min_shared))
    IN [i \in 0..(Len(files) - 1) |->
           {j \in 0..(Len(files) - 1) : <<i, j>> \in related \/ <<j, i>> \in related}]

\* session.commit(): ck_no_self_relationship and uq_file_relationship_pair
\* of table file_relationships, which is empty before the call
CommitAccepts(rels) ==
    /\ \A k \in DOMAIN rels : rels[k].source_file_id # rels[k].target_file_id
    /\ \A k \in DOMAIN rels : \A l \in DOMAIN rels :
           (/\ k # l
            /\ rels[k].source_file_id = rels[l].source_file_id
            /\ rels[k].target_file_id = rels[l].target_file_id) => FALSE

RelInit ==
    /\ sPc = "call"
    /\ args \in RelationArgs
    /\ result = <<>>

CreateRelationships ==
    /\ sPc = "call"
    /\ args.fn = "create_relationships_with_graph"
    /\ LET min_shared == MinShared(args.min_shared)
           rels == relationships_of(args.files, args.tags, min_shared)
       IN /\ CommitAccepts(rels)
          /\ result' = [relationships |-> rels,
                        adjacency |-> adjacency_of(args.files, args.tags, min_shared)]
    /\ sPc' = "returned"
    /\ UNCHANGED args

\* the commit raises IntegrityError: nothing is returned
CreateRelationshipsFails ==
    /\ sPc = "call"
    /\ args.fn = "create_relationships_with_graph"
    /\ ~CommitAccepts(relationships_of(args.files, args.tags, MinShared(args.min_shared)))
    /\ sPc' = "raised"
    /\ UNCHANGED <<args, result>>

InitRelations == HIdle /\ EIdle /\ CIdle /\ RelInit /\ RIdle

NextRelations ==
    \/ CreateRelationships /\ UNCHANGED <<hvars, evars, cvars, rvars>>
    \/ CreateRelationshipsFails /\ UNCHANGED <<hvars, evars, cvars, rvars>>

SpecRelations == InitRelations /\ [][NextRelations]_vars

\* the relationships created between the files at indices i and j
Between(i, j) ==
    {k \in DOMAIN result.relationships :
        {result.relationships[k].source_file_id, result.relationships[k].target_file_id}
            = {args.files[i + 1], args.files[j + 1]}}

====
